---- MODULE Spec2Model ----
(***************************************************************************)
(* A model of python_services/eye_tracking_service.py: the per-session     *)
(* lifecycle (idle, countdown, tracking, stopped), the focus smoothing and *)
(* the accrual of focused / unfocused time, the registry with its idle     *)
(* sweep, and the request handlers that drive them.                        *)
(*                                                                         *)
(* Time is time.time() in whole seconds.  None is written 0; the clock     *)
(* starts at 1, so a timestamp is never 0 and Python's truthiness test     *)
(* "if session.current_focus_session_start:" is "field # None".            *)
(*                                                                         *)
(* A handler is executed by a thread (Flask serves each request on its own *)
(* thread).  process_frame takes no lock, so it is modelled statement by   *)
(* statement, the label of a step being the source line it executes.       *)
(* start_session, stop_session, the status query and the sweep are single  *)
(* steps: grouping statements only removes interleavings, so every         *)
(* behaviour of the model is a behaviour of the code.                      *)
(*                                                                         *)
(* Spec        runs the calls one at a time (no two calls overlap).        *)
(* SpecConc    lets the calls of two threads overlap.                      *)
(* SpecEvict   runs the cleanup thread beside one request thread.          *)
(* SpecSweep   runs the sweep alone on a registry of two sessions.         *)
(* SpecFrames  follows long runs of frames (histories of up to 15).        *)
(* SpecMetrics lets time pass inside a call before the metrics are read.   *)
(***************************************************************************)
EXTENDS Integers, Sequences, FiniteSets, TLC

\* ------------------------------------------------------------ bounds
MaxTime == 5
MaxFrames == 3
MaxIdle == 1
MaxConcTime == 3
MaxConcFrames == 3
MaxEvictTime == 3
MaxEvictFrames == 3
MaxSweepStart == 4
MaxSweepTime == 6
MaxHistFrames == 3
MaxHistTime == 4
MaxMetricsTime == 3
MaxMetricsFrames == 3
MaxLate == 2

\* ------------------------------------------------- program constants
countdown_duration == 2
focus_history_size == 15
session_timeout == 300
None == 0
StartClock == 1

\* Keys are the session ids the registry can hold; SessionIds are the ids
\* the requests carry.
Keys == {"s1", "s2"}
SessionIds == {"s1"}
Threads == {1, 2}
ObjIds == 1..(Cardinality(Keys) + Cardinality(Threads))

VARIABLES
    now,       \* time.time()
    idles,     \* how many long idle periods have passed (bounds the clock)
    sessions,  \* EyeTrackingService.sessions: session id -> object, or None
    heap,      \* the ClientSession objects
    pc,        \* per thread: the line it is about to run, or "idle"
    loc        \* per thread: the locals of its call

vars == <<now, idles, sessions, heap, pc, loc>>

\* ------------------------------------------------------ ClientSession
\* ClientSession.__init__ at time t.  frames_accepted is a history field of
\* the model: the number of frames that passed decoding for this object
\* since the initial state.
ClientSession(t) ==
    [ is_tracking |-> FALSE,
      is_focused |-> FALSE,
      session_start_time |-> None,
      accumulated_focused_time |-> 0,
      accumulated_unfocused_time |-> 0,
      last_frame_time |-> t,
      focus_history |-> << >>,
      current_focus_session_start |-> None,
      current_unfocus_session_start |-> None,
      frames_processed |-> 0,
      countdown_active |-> FALSE,
      countdown_start_time |-> None,
      tracking_state |-> "idle",
      frames_accepted |-> 0 ]

\* An object nobody refers to (not yet allocated, or collected).
FreeObj == [ClientSession(None) EXCEPT !.tracking_state = "free"]

\* ---------------------------------------------------- pure functions
\* AppendHistory with pop() in place of pop(0): the newest entry is dropped.
AppendHistoryDropNewest(h, x) ==
    LET h2 == Append(h, x)
    IN  IF Len(h2) > focus_history_size
        THEN SubSeq(h2, 1, focus_history_size) ELSE h2

\* update_focus_state, lines 248-250: append, drop the oldest on overflow.
AppendHistory(h, x) ==
    LET h2 == Append(h, x)
    IN  IF Len(h2) > focus_history_size THEN Tail(h2) ELSE h2

\* np.linspace(0.5, 1.0, n)[i-1], scaled by 2(n-1) to stay in the integers:
\* 0.5 + 0.5(i-1)/(n-1) becomes (n-1) + (i-1).  linspace(0.5, 1.0, 1) is
\* [0.5]: a single positive weight, here 1.
Weight(i, n) == IF n = 1 THEN 1 ELSE (n - 1) + (i - 1)

RECURSIVE SumW(_, _)
SumW(k, n) == IF k = 0 THEN 0 ELSE Weight(k, n) + SumW(k - 1, n)

RECURSIVE SumWH(_, _)
SumWH(h, k) ==
    IF k = 0 THEN 0
    ELSE (IF h[k] THEN Weight(k, Len(h)) ELSE 0) + SumWH(h, k - 1)

\* The weighted mean of h against 0.6 in the real numbers:
\* sum(w h) / sum(w) > 0.6 is 5 * sum(w h) > 3 * sum(w), and a tie is equality.
MeanAbove(h) == 5 * SumWH(h, Len(h)) > 3 * SumW(Len(h), Len(h))

MeanTie(h) == 5 * SumWH(h, Len(h)) = 3 * SumW(Len(h), Len(h))

\* np.linspace(0.5, 1.0, n) holds exact binary fractions when n - 1 is a
\* power of two; then the float64 sums and the quotient are exact.
ExactWeights(n) == n \in {1, 2, 3, 5, 9}

\* Lines 252-254, np.average(h, weights) > 0.6 in float64: the values the
\* comparison can give.  Away from a tie the rounding error is far smaller
\* than the distance to 0.6, so the result is the real one.  At a tie with
\* inexact weights the rounded quotient decides.  For F,F,F,T,T,T the sums
\* are 2.7 and 4.5 in any order of summation and 2.7 / 4.5 rounds to
\* 0.6000000000000001, which is > 0.6.  For the other ties the rounded sum
\* depends on the order in which np.sum adds, so either value can result.
Smoothed(h) ==
    IF ~MeanTie(h) \/ ExactWeights(Len(h)) THEN {MeanAbove(h)}
    ELSE IF h = <<FALSE, FALSE, FALSE, TRUE, TRUE, TRUE>> THEN {TRUE}
    ELSE BOOLEAN

\* CloseInterval with the operands of the subtraction exchanged.
CloseIntervalSwapped(acc, start, t) == acc + (start - t)

\* "acc += current_time - start", lines 261 and 266: the value to store.
CloseInterval(acc, start, t) == acc + (t - start)

\* CountdownDone with a strict comparison.
CountdownDoneStrict(elapsed) == elapsed > countdown_duration

\* "elapsed >= session.countdown_duration", line 178.
CountdownDone(elapsed) == elapsed >= countdown_duration

\* Lines 179-182.
CountdownFields(s, t) ==
    [s EXCEPT !.countdown_active = FALSE,
              !.is_tracking = TRUE,
              !.tracking_state = "tracking",
              !.session_start_time = t]

\* start_session, lines 323-328.
StartFields(s, t) ==
    [s EXCEPT !.countdown_active = TRUE,
              !.countdown_start_time = t,
              !.tracking_state = "countdown",
              !.accumulated_focused_time = 0,
              !.accumulated_unfocused_time = 0,
              !.focus_history = << >>]

\* StopFields without line 338: the countdown stays armed.
StopFieldsKeepCountdown(s) ==
    [s EXCEPT !.is_tracking = FALSE,
              !.tracking_state = "stopped"]

\* stop_session, lines 337-339.
StopFields(s) ==
    [s EXCEPT !.is_tracking = FALSE,
              !.countdown_active = FALSE,
              !.tracking_state = "stopped"]

\* get_session_metrics, lines 299-305: the effective totals at time t.
EffFocused(s, t) ==
    s.accumulated_focused_time
      + (IF s.current_focus_session_start # None
         THEN t - s.current_focus_session_start ELSE 0)

EffUnfocused(s, t) ==
    s.accumulated_unfocused_time
      + (IF s.current_unfocus_session_start # None
         THEN t - s.current_unfocus_session_start ELSE 0)

\* get_session_metrics, lines 297-305, in hundredths of a second: its
\* time.time() (line 297) is read late hundredths of a second after t.
FocusedAt(s, t, late) ==
    100 * EffFocused(s, t)
      + (IF s.current_focus_session_start # None THEN late ELSE 0)

UnfocusedAt(s, t, late) ==
    100 * EffUnfocused(s, t)
      + (IF s.current_unfocus_session_start # None THEN late ELSE 0)

\* round(num / den) to the nearest integer, half to even: round(x, 1) in
\* tenths, for x = 100 f / total and for x a time in seconds.
RoundTenths(num, den) ==
    LET q == num \div den
        r == num % den
    IN  IF 2 * r > den THEN q + 1
        ELSE IF 2 * r = den THEN q + (q % 2)
        ELSE q

\* Line 308, then line 314; the percentage is in tenths of a percent.
Percentage(f, total) == IF total > 0 THEN RoundTenths(1000 * f, total) ELSE 0

\* Line 211.
CountdownRemaining(s, t) ==
    IF s.countdown_start_time # None
    THEN (LET r == countdown_duration - (t - s.countdown_start_time)
          IN  IF r > 0 THEN r ELSE 0)
    ELSE 0

\* The comparison of line 123 with ">=" in place of ">".
InactiveInclusive(s, t) == t - s.last_frame_time >= session_timeout

\* cleanup_inactive_sessions, line 123.
Inactive(s, t) == t - s.last_frame_time > session_timeout

\* The shape of a result.
NoRet ==
    [ op |-> "none", status |-> "none",
      is_focused |-> FALSE, tracking_state |-> "none",
      countdown_active |-> FALSE, countdown_remaining |-> 0,
      focused_time |-> 0, unfocused_time |-> 0, total_time |-> 0,
      focus_percentage |-> 0, frames_processed |-> 0,
      current_state |-> "none" ]

\* get_session_metrics, lines 295-317, written into a result r.
WithMetrics(r, s, t, late) ==
    LET f == FocusedAt(s, t, late)
        u == UnfocusedAt(s, t, late)
    IN  [r EXCEPT !.focused_time = RoundTenths(f, 10),
                  !.unfocused_time = RoundTenths(u, 10),
                  !.total_time = RoundTenths(f + u, 10),
                  !.focus_percentage = Percentage(f, f + u),
                  !.frames_processed = s.frames_processed,
                  !.current_state =
                      IF s.is_focused THEN "focused" ELSE "unfocused"]

LocInit ==
    [ sid |-> "none", ref |-> 0, raw |-> FALSE, elapsed |-> 0,
      smoothed |-> FALSE, current_time |-> 0, tmp |-> 0,
      pre_state |-> "none", pre_countdown_start |-> 0, at |-> 0,
      ids |-> TRUE, late |-> 0 ]

\* ------------------------------------------------------- the registry
Registered(sid) == sessions[sid] # None

\* The lifecycle state of sid before a call: "absent" without a session.
StateOf(sid) ==
    IF Registered(sid) THEN heap[sessions[sid]].tracking_state ELSE "absent"

\* Python frees an object once neither the registry nor a running call
\* refers to it (del self.sessions[sid], line 127).
Collect(h, sess, p, l) ==
    [o \in ObjIds |->
        IF \/ \E sid \in Keys : sess[sid] = o
           \/ \E t \in Threads : p[t] # "idle" /\ l[t].ref = o
        THEN h[o] ELSE FreeObj]

\* The object ClientSession(...) allocates, line 134.
NewObj ==
    CHOOSE o \in ObjIds :
        /\ heap[o] = FreeObj
        /\ \A o2 \in ObjIds : heap[o2] = FreeObj => o <= o2

AllIdle == \A t \in Threads : pc[t] = "idle"

Init ==
    /\ now = StartClock
    /\ idles = 0
    /\ sessions = [sid \in Keys |-> None]
    /\ heap = [o \in ObjIds |-> FreeObj]
    /\ pc = [t \in Threads |-> "idle"]
    /\ loc = [t \in Threads |-> LocInit]

\* ------------------------------------------------------------ the clock
\* One second passes (the clock is followed up to limit seconds).
Tick(limit) ==
    /\ now - idles * session_timeout < limit
    /\ now' = now + 1
    /\ UNCHANGED <<idles, sessions, heap, pc, loc>>

\* A long period without requests passes: session_timeout seconds.
LongIdle ==
    /\ idles < MaxIdle
    /\ now' = now + session_timeout
    /\ idles' = idles + 1
    /\ UNCHANGED <<sessions, heap, pc, loc>>

\* cleanup_inactive_sessions, lines 117-127, under session_lock.
Sweep ==
    /\ \E sid \in Keys :
          Registered(sid) /\ Inactive(heap[sessions[sid]], now)
    /\ sessions' = [sid \in Keys |->
                      IF Registered(sid) /\ Inactive(heap[sessions[sid]], now)
                      THEN None ELSE sessions[sid]]
    /\ heap' = Collect(heap, sessions', pc, loc)
    /\ UNCHANGED <<now, idles, pc, loc>>

\* ------------------------------------------------------- start / stop
\* What a call keeps from its first step: the session, its object, the time,
\* and (for the record) the lifecycle state and countdown start it found.
Entry(sid) ==
    [LocInit EXCEPT
        !.sid = sid, !.ref = sessions[sid], !.at = now,
        !.pre_state = StateOf(sid),
        !.pre_countdown_start =
            IF Registered(sid) THEN heap[sessions[sid]].countdown_start_time
            ELSE None]

Goto(t, label) == pc' = [pc EXCEPT ![t] = label]

\* start_session, lines 319-331, with get_or_create_session, lines 129-138.
\* user_id and module_id are given (truthy) or absent; the local ids records
\* whether both were given.  The call is then at its return statement:
\* line 330 (True) or line 331 (False).
StartSession(t, sid, user_id, module_id) ==
    /\ pc[t] = "idle"
    /\ IF Registered(sid)
       THEN /\ heap' = [heap EXCEPT ![sessions[sid]] = StartFields(@, now)]
            /\ loc' = [loc EXCEPT ![t] =
                          [Entry(sid) EXCEPT !.ids = user_id /\ module_id]]
            /\ Goto(t, "l330")
            /\ UNCHANGED sessions
       ELSE IF user_id /\ module_id
       THEN /\ sessions' = [sessions EXCEPT ![sid] = NewObj]
            /\ heap' = [heap EXCEPT ![NewObj] =
                           StartFields(ClientSession(now), now)]
            /\ loc' = [loc EXCEPT ![t] = [Entry(sid) EXCEPT !.ref = NewObj]]
            /\ Goto(t, "l330")
       ELSE /\ loc' = [loc EXCEPT ![t] = [Entry(sid) EXCEPT !.ids = FALSE]]
            /\ Goto(t, "l331")
            /\ UNCHANGED <<sessions, heap>>
    /\ UNCHANGED <<now, idles>>

\* stop_session, lines 333-339; the call is then at line 340 (the metrics
\* it returns are taken there) or at line 343 (return None).
StopSession(t, sid) ==
    /\ pc[t] = "idle"
    /\ loc' = [loc EXCEPT ![t] = Entry(sid)]
    /\ IF Registered(sid)
       THEN /\ heap' = [heap EXCEPT ![sessions[sid]] = StopFields(@)]
            /\ Goto(t, "l340")
       ELSE /\ Goto(t, "l343")
            /\ UNCHANGED heap
    /\ UNCHANGED <<now, idles, sessions>>

\* get_status, lines 401-411; the call is then at line 411 (404) or at
\* line 413 (the status it returns is read there).
GetStatus(t, sid) ==
    /\ pc[t] = "idle"
    /\ loc' = [loc EXCEPT ![t] = Entry(sid)]
    /\ IF Registered(sid) THEN Goto(t, "l413") ELSE Goto(t, "l411")
    /\ UNCHANGED <<now, idles, sessions, heap>>

\* ------------------------------------------------------ process_frame
\* The session object a running call holds (lines 163, 321, 335, 409).
Obj(t) == heap[loc[t].ref]

\* process_frame with lines 172-173 moved before the decoding: a frame that
\* does not decode still counts as activity.
PF_BeginTouchFirst(t, sid, decodable, limit) ==
    /\ pc[t] = "idle"
    /\ loc' = [loc EXCEPT ![t] = Entry(sid)]
    /\ IF ~Registered(sid) THEN Goto(t, "l165") /\ UNCHANGED heap
       ELSE IF ~decodable
       THEN /\ heap' = [heap EXCEPT ![sessions[sid]] =
                           [@ EXCEPT !.last_frame_time = now,
                                     !.frames_processed = @ + 1]]
            /\ Goto(t, "l170")
       ELSE /\ heap[sessions[sid]].frames_accepted < limit
            /\ Goto(t, "l172")
            /\ UNCHANGED heap
    /\ UNCHANGED <<now, idles, sessions>>

\* Lines 163-170: look the session up and decode the frame.  Without a
\* session the call returns at line 165; a frame that does not decode
\* (decode_frame returns None) returns at line 170.
PF_Begin(t, sid, decodable, limit) ==
    /\ pc[t] = "idle"
    /\ loc' = [loc EXCEPT ![t] = Entry(sid)]
    /\ IF ~Registered(sid) THEN Goto(t, "l165")
       ELSE IF ~decodable THEN Goto(t, "l170")
       ELSE /\ heap[sessions[sid]].frames_accepted < limit
            /\ Goto(t, "l172")
    /\ UNCHANGED <<now, idles, sessions, heap>>

\* Line 172: session.last_frame_time = time.time()
PF_172(t) ==
    /\ pc[t] = "l172"
    /\ heap' = [heap EXCEPT ![loc[t].ref] =
                   [@ EXCEPT !.last_frame_time = now,
                             !.frames_accepted = @ + 1]]
    /\ Goto(t, "l173")
    /\ UNCHANGED <<now, idles, sessions, loc>>

\* Line 173, session.frames_processed += 1: the read ...
PF_173(t) ==
    /\ pc[t] = "l173"
    /\ loc' = [loc EXCEPT ![t].tmp = Obj(t).frames_processed + 1]
    /\ Goto(t, "l173w")
    /\ UNCHANGED <<now, idles, sessions, heap>>

\* ... and the write.
PF_173w(t) ==
    /\ pc[t] = "l173w"
    /\ heap' = [heap EXCEPT ![loc[t].ref].frames_processed = loc[t].tmp]
    /\ Goto(t, "l176")
    /\ UNCHANGED <<now, idles, sessions, loc>>

\* Lines 176-177: if session.countdown_active: elapsed = time.time() - ...
PF_176(t) ==
    /\ pc[t] = "l176"
    /\ IF Obj(t).countdown_active
       THEN /\ loc' = [loc EXCEPT ![t].elapsed =
                          now - Obj(t).countdown_start_time]
            /\ Goto(t, "l178")
       ELSE /\ Goto(t, "l189")
            /\ UNCHANGED loc
    /\ UNCHANGED <<now, idles, sessions, heap>>

\* Lines 178-182: if elapsed >= countdown_duration: start tracking.
PF_178(t) ==
    /\ pc[t] = "l178"
    /\ IF CountdownDone(loc[t].elapsed)
       THEN heap' = [heap EXCEPT ![loc[t].ref] = CountdownFields(@, now)]
       ELSE UNCHANGED heap
    /\ Goto(t, "l189")
    /\ UNCHANGED <<now, idles, sessions, loc>>

\* Lines 186-190: if session.is_tracking: is_focused = analyze_gaze(...).
\* The gaze tracker is outside the model: its answer is any boolean.
PF_189(t) ==
    /\ pc[t] = "l189"
    /\ IF Obj(t).is_tracking
       THEN /\ \E raw \in BOOLEAN : loc' = [loc EXCEPT ![t].raw = raw]
            /\ Goto(t, "l248")
       ELSE /\ Goto(t, "l206")
            /\ UNCHANGED loc
    /\ UNCHANGED <<now, idles, sessions, heap>>

\* update_focus_state, lines 248-250.
PF_248(t) ==
    /\ pc[t] = "l248"
    /\ heap' = [heap EXCEPT ![loc[t].ref].focus_history =
                   AppendHistory(@, loc[t].raw)]
    /\ Goto(t, "l252")
    /\ UNCHANGED <<now, idles, sessions, loc>>

\* Lines 252-256: the smoothed focus, and current_time = time.time().
PF_252(t) ==
    /\ pc[t] = "l252"
    /\ \E b \in Smoothed(Obj(t).focus_history) :
          loc' = [loc EXCEPT ![t].smoothed = b, ![t].current_time = now]
    /\ Goto(t, "l258")
    /\ UNCHANGED <<now, idles, sessions, heap>>

\* Lines 258-259: if smoothed_focus != session.is_focused: if is_focused:
PF_258(t) ==
    /\ pc[t] = "l258"
    /\ IF loc[t].smoothed # Obj(t).is_focused
       THEN IF Obj(t).is_focused THEN Goto(t, "l260") ELSE Goto(t, "l265")
       ELSE Goto(t, "l206")
    /\ UNCHANGED <<now, idles, sessions, heap, loc>>

\* Line 260: if session.current_focus_session_start:
PF_260(t) ==
    /\ pc[t] = "l260"
    /\ IF Obj(t).current_focus_session_start # None
       THEN Goto(t, "l261") ELSE Goto(t, "l263")
    /\ UNCHANGED <<now, idles, sessions, heap, loc>>

\* Line 261, accumulated_focused_time += current_time - start: the read of
\* both fields (float - None raises TypeError, which ends the call) ...
PF_261(t) ==
    /\ pc[t] = "l261"
    /\ IF Obj(t).current_focus_session_start = None
       THEN /\ Goto(t, "raised")
            /\ UNCHANGED loc
       ELSE /\ loc' = [loc EXCEPT ![t].tmp =
                  CloseInterval(Obj(t).accumulated_focused_time,
                                Obj(t).current_focus_session_start,
                                loc[t].current_time)]
            /\ Goto(t, "l261w")
    /\ UNCHANGED <<now, idles, sessions, heap>>

\* ... and the write.
PF_261w(t) ==
    /\ pc[t] = "l261w"
    /\ heap' = [heap EXCEPT ![loc[t].ref].accumulated_focused_time = loc[t].tmp]
    /\ Goto(t, "l262")
    /\ UNCHANGED <<now, idles, sessions, loc>>

\* Line 262: session.current_focus_session_start = None
PF_262(t) ==
    /\ pc[t] = "l262"
    /\ heap' = [heap EXCEPT ![loc[t].ref].current_focus_session_start = None]
    /\ Goto(t, "l263")
    /\ UNCHANGED <<now, idles, sessions, loc>>

\* Line 263: session.current_unfocus_session_start = current_time
PF_263(t) ==
    /\ pc[t] = "l263"
    /\ heap' = [heap EXCEPT ![loc[t].ref].current_unfocus_session_start =
                   loc[t].current_time]
    /\ Goto(t, "l270")
    /\ UNCHANGED <<now, idles, sessions, loc>>

\* Line 265: if session.current_unfocus_session_start:
PF_265(t) ==
    /\ pc[t] = "l265"
    /\ IF Obj(t).current_unfocus_session_start # None
       THEN Goto(t, "l266") ELSE Goto(t, "l268")
    /\ UNCHANGED <<now, idles, sessions, heap, loc>>

\* Line 266, accumulated_unfocused_time += current_time - start: the read ...
PF_266(t) ==
    /\ pc[t] = "l266"
    /\ IF Obj(t).current_unfocus_session_start = None
       THEN /\ Goto(t, "raised")
            /\ UNCHANGED loc
       ELSE /\ loc' = [loc EXCEPT ![t].tmp =
                  CloseInterval(Obj(t).accumulated_unfocused_time,
                                Obj(t).current_unfocus_session_start,
                                loc[t].current_time)]
            /\ Goto(t, "l266w")
    /\ UNCHANGED <<now, idles, sessions, heap>>

\* ... and the write.
PF_266w(t) ==
    /\ pc[t] = "l266w"
    /\ heap' = [heap EXCEPT ![loc[t].ref].accumulated_unfocused_time = loc[t].tmp]
    /\ Goto(t, "l267")
    /\ UNCHANGED <<now, idles, sessions, loc>>

\* Line 267: session.current_unfocus_session_start = None
PF_267(t) ==
    /\ pc[t] = "l267"
    /\ heap' = [heap EXCEPT ![loc[t].ref].current_unfocus_session_start = None]
    /\ Goto(t, "l268")
    /\ UNCHANGED <<now, idles, sessions, loc>>

\* Line 268: session.current_focus_session_start = current_time
PF_268(t) ==
    /\ pc[t] = "l268"
    /\ heap' = [heap EXCEPT ![loc[t].ref].current_focus_session_start =
                   loc[t].current_time]
    /\ Goto(t, "l270")
    /\ UNCHANGED <<now, idles, sessions, loc>>

\* update_focus_state without line 270: the smoothed focus is not stored.
PF_270NoStore(t) ==
    /\ pc[t] = "l270"
    /\ Goto(t, "l206")
    /\ UNCHANGED <<now, idles, sessions, heap, loc>>

\* Line 270: session.is_focused = smoothed_focus
PF_270(t) ==
    /\ pc[t] = "l270"
    /\ heap' = [heap EXCEPT ![loc[t].ref].is_focused = loc[t].smoothed]
    /\ Goto(t, "l206")
    /\ UNCHANGED <<now, idles, sessions, loc>>

\* ------------------------------------------------------------ results
\* Lines 206-214: what process_frame returns.  (The annotated frame, lines
\* 193-204, only writes latest_annotated_frame, which nothing here reads.)
FrameResult(t) ==
    WithMetrics(
        [NoRet EXCEPT !.op = "frame", !.status = "ok",
                      !.is_focused = loc[t].raw,
                      !.tracking_state = Obj(t).tracking_state,
                      !.countdown_active = Obj(t).countdown_active,
                      !.countdown_remaining = CountdownRemaining(Obj(t), now)],
        Obj(t), now, loc[t].late)

\* Lines 340-342: what stop_session returns for a session it found.
StopResult(t) ==
    WithMetrics([NoRet EXCEPT !.op = "stop", !.status = "ok",
                              !.tracking_state = Obj(t).tracking_state,
                              !.countdown_active = Obj(t).countdown_active],
                Obj(t), now, loc[t].late)

\* Lines 413-421.
StatusResult(t) ==
    WithMetrics([NoRet EXCEPT !.op = "status", !.status = "ok",
                              !.tracking_state = Obj(t).tracking_state,
                              !.countdown_active = Obj(t).countdown_active],
                Obj(t), now, loc[t].late)

\* A hundredth of a second passes before the call reads the clock in
\* get_session_metrics (line 297), up to MaxLate of them.
Late(t) ==
    /\ pc[t] \in {"l206", "l340", "l413"}
    /\ loc[t].late < MaxLate
    /\ loc' = [loc EXCEPT ![t].late = @ + 1]
    /\ UNCHANGED <<now, idles, sessions, heap, pc>>

ReturnLabels ==
    {"l165", "l170", "l206", "l330", "l331", "l340", "l343", "l411", "l413",
     "raised"}

\* What the call of thread t gives its caller, while t is at a return.
Result(t) ==
    CASE pc[t] = "l165" -> [NoRet EXCEPT !.op = "frame", !.status = "not_found"]
      [] pc[t] = "l170" -> [NoRet EXCEPT !.op = "frame", !.status = "decode_error"]
      [] pc[t] = "l206" -> FrameResult(t)
      [] pc[t] = "raised" -> [NoRet EXCEPT !.op = "frame", !.status = "exception"]
      [] pc[t] = "l330" -> [NoRet EXCEPT !.op = "start", !.status = "ok"]
      [] pc[t] = "l331" -> [NoRet EXCEPT !.op = "start", !.status = "failed"]
      [] pc[t] = "l340" -> StopResult(t)
      [] pc[t] = "l343" -> [NoRet EXCEPT !.op = "stop", !.status = "not_found"]
      [] pc[t] = "l411" -> [NoRet EXCEPT !.op = "status", !.status = "not_found"]
      [] pc[t] = "l413" -> StatusResult(t)
      [] OTHER -> NoRet

\* The call returns (or its exception reaches Flask): the thread is free.
Return(t) ==
    /\ pc[t] \in ReturnLabels
    /\ pc' = [pc EXCEPT ![t] = "idle"]
    /\ loc' = [loc EXCEPT ![t] = LocInit]
    /\ heap' = Collect(heap, sessions, pc', loc')
    /\ UNCHANGED <<now, idles, sessions>>

\* A step of a running call.
PF_Step(t) ==
    \/ PF_172(t) \/ PF_173(t) \/ PF_173w(t) \/ PF_176(t) \/ PF_178(t)
    \/ PF_189(t) \/ PF_248(t) \/ PF_252(t) \/ PF_258(t)
    \/ PF_260(t) \/ PF_261(t) \/ PF_261w(t) \/ PF_262(t) \/ PF_263(t)
    \/ PF_265(t) \/ PF_266(t) \/ PF_266w(t) \/ PF_267(t) \/ PF_268(t)
    \/ PF_270(t) \/ Return(t)

\* A request arrives and thread t takes it (at most limit frames are
\* followed per session object).
Call(t, limit) ==
    \/ \E sid \in SessionIds, u \in BOOLEAN, m \in BOOLEAN :
          StartSession(t, sid, u, m)
    \/ \E sid \in SessionIds : StopSession(t, sid)
    \/ \E sid \in SessionIds : GetStatus(t, sid)
    \/ \E sid \in SessionIds, d \in BOOLEAN : PF_Begin(t, sid, d, limit)

\* ------------------------------------------------- the specifications
\* Calls one at a time: a call runs to its return before anything else
\* happens, the clock and the sweep included.
Next ==
    \/ AllIdle /\ Call(1, MaxFrames)
    \/ AllIdle /\ Tick(MaxTime)
    \/ AllIdle /\ LongIdle
    \/ AllIdle /\ Sweep
    \/ PF_Step(1)

Spec == Init /\ [][Next]_vars

\* Overlapping calls: thread 1 serves any request, thread 2 serves frames,
\* and their steps and the clock interleave.
NextConc ==
    \/ Call(1, MaxConcFrames)
    \/ \E sid \in SessionIds, d \in BOOLEAN : PF_Begin(2, sid, d, MaxConcFrames)
    \/ \E t \in Threads : PF_Step(t)
    \/ Tick(MaxConcTime)

SpecConc == Init /\ [][NextConc]_vars

\* The cleanup thread beside one request thread: the sweep takes
\* session_lock, which process_frame, stop_session and the status query never
\* take, so the sweep and the clock run between any two steps of a call.
NextEvict ==
    \/ Call(1, MaxEvictFrames)
    \/ PF_Step(1)
    \/ Tick(MaxEvictTime)
    \/ LongIdle
    \/ Sweep

SpecEvict == Init /\ [][NextEvict]_vars

\* The sweep alone, on a registry of two sessions.  Each session was
\* started at one of the first MaxSweepStart seconds and has been idle
\* since, a long idle period has passed, and the clock is followed for
\* MaxSweepTime seconds, the sweep running at any of them.
InitSweep ==
    /\ idles = 1
    /\ now \in (session_timeout + 1)..(session_timeout + MaxSweepStart)
    /\ sessions = [sid \in Keys |-> IF sid = "s1" THEN 1 ELSE 2]
    /\ \E a \in 1..MaxSweepStart, b \in 1..MaxSweepStart :
          heap = [o \in ObjIds |->
                    IF o = 1 THEN StartFields(ClientSession(a), a)
                    ELSE IF o = 2 THEN StartFields(ClientSession(b), b)
                    ELSE FreeObj]
    /\ pc = [t \in Threads |-> "idle"]
    /\ loc = [t \in Threads |-> LocInit]

NextSweep ==
    \/ Sweep
    \/ Tick(MaxSweepTime)

SpecSweep == InitSweep /\ [][NextSweep]_vars

\* Long runs of frames.  The session was started at StartClock; either no
\* frame has come yet (k = 0), or the countdown has ended and k frames have
\* been processed in the second it ended, each with raw focus False, which
\* leaves k entries in focus_history and the smoothed focus False.
FramedSession(k) ==
    LET s0 == StartFields(ClientSession(StartClock), StartClock)
        t0 == StartClock + countdown_duration
    IN  IF k = 0 THEN s0
        ELSE [CountdownFields(s0, t0) EXCEPT
                 !.last_frame_time = t0,
                 !.frames_processed = k,
                 !.focus_history = [i \in 1..k |-> FALSE]]

InitFrames ==
    /\ idles = 0
    /\ sessions = [sid \in Keys |-> IF sid = "s1" THEN 1 ELSE None]
    /\ \E k \in 0..focus_history_size :
          /\ now = IF k = 0 THEN StartClock
                   ELSE StartClock + countdown_duration
          /\ heap = [o \in ObjIds |->
                       IF o = 1 THEN FramedSession(k) ELSE FreeObj]
    /\ pc = [t \in Threads |-> "idle"]
    /\ loc = [t \in Threads |-> LocInit]

\* From there: up to MaxHistFrames more frames, restarts, and the clock,
\* one call at a time.
NextFrames ==
    \/ AllIdle /\ StartSession(1, "s1", TRUE, TRUE)
    \/ AllIdle /\ PF_Begin(1, "s1", TRUE, MaxHistFrames)
    \/ AllIdle /\ Tick(MaxHistTime)
    \/ PF_Step(1)

SpecFrames == InitFrames /\ [][NextFrames]_vars

\* Calls one at a time, with the time that passes inside a call before
\* get_session_metrics reads the clock.
NextMetrics ==
    \/ AllIdle /\ Call(1, MaxMetricsFrames)
    \/ AllIdle /\ Tick(MaxMetricsTime)
    \/ PF_Step(1)
    \/ Late(1)

SpecMetrics == Init /\ [][NextMetrics]_vars

\* =============================================================== claims
\* The session registered under sid.
SessionOf(sid) == heap[sessions[sid]]

\* sid names the same session object before and after the step.
SameSession(sid) == sessions[sid] # None /\ sessions'[sid] = sessions[sid]

\* C1: stop_session finalizes the open interval: once a session is Stopped,
\* neither current_focus_session_start nor current_unfocus_session_start is
\* set (so its focused / unfocused / total seconds no longer grow).
C1_StopFinalizes ==
    \A sid \in SessionIds :
        (Registered(sid) /\ SessionOf(sid).tracking_state = "stopped")
        => /\ SessionOf(sid).current_focus_session_start = None
           /\ SessionOf(sid).current_unfocus_session_start = None

\* C2: stop_session returns not_found (line 343) exactly when the session
\* was already Stopped or does not exist; otherwise it returns metrics.
C2_SecondStopNotFound ==
    \A t \in Threads :
        pc[t] \in {"l340", "l343"}
        => (pc[t] = "l343" <=> loc[t].pre_state \in {"stopped", "absent"})

\* C3: conservation: while a session is Tracking, effective focused seconds
\* plus effective unfocused seconds equal the time since session_start_time.
C3_Conservation ==
    \A sid \in SessionIds :
        (Registered(sid) /\ SessionOf(sid).tracking_state = "tracking")
        => EffFocused(SessionOf(sid), now) + EffUnfocused(SessionOf(sid), now)
             = now - SessionOf(sid).session_start_time

\* C4: when start_session returns True, the session is in Countdown with
\* countdown-start = now, both accumulators 0, an empty history, no interval
\* open, and metrics taken now report zero focused and unfocused time.
C4_RestartRearms ==
    \A t \in Threads :
        pc[t] = "l330"
        => /\ Obj(t).tracking_state = "countdown"
           /\ Obj(t).countdown_active
           /\ Obj(t).countdown_start_time = now
           /\ Obj(t).accumulated_focused_time = 0
           /\ Obj(t).accumulated_unfocused_time = 0
           /\ Obj(t).focus_history = << >>
           /\ Obj(t).current_focus_session_start = None
           /\ Obj(t).current_unfocus_session_start = None
           /\ EffFocused(Obj(t), now) = 0
           /\ EffUnfocused(Obj(t), now) = 0

\* C5 as stated: while a session stays in the registry, no step decreases
\* accumulated_focused_time or accumulated_unfocused_time.
C5_AccNeverDecrease ==
    [][\A sid \in SessionIds :
          SameSession(sid)
          => /\ SessionOf(sid).accumulated_focused_time' >=
                  SessionOf(sid).accumulated_focused_time
             /\ SessionOf(sid).accumulated_unfocused_time' >=
                  SessionOf(sid).accumulated_unfocused_time]_vars

\* C5 amended: while a session stays in the registry, the only step that
\* decreases an accumulator is start_session, which sets both to 0.
C5_AccDecreaseOnlyByStart ==
    [][\A sid \in SessionIds :
          (/\ SameSession(sid)
           /\ \/ SessionOf(sid).accumulated_focused_time' <
                   SessionOf(sid).accumulated_focused_time
              \/ SessionOf(sid).accumulated_unfocused_time' <
                   SessionOf(sid).accumulated_unfocused_time)
          => \E t \in Threads :
                /\ pc[t] = "idle" /\ pc'[t] = "l330" /\ loc'[t].sid = sid
                /\ SessionOf(sid).accumulated_focused_time' = 0
                /\ SessionOf(sid).accumulated_unfocused_time' = 0]_vars

\* C5 witness: a session that has accrued both focused and unfocused time.
C5_Witness ==
    \E sid \in SessionIds :
        /\ Registered(sid)
        /\ SessionOf(sid).accumulated_focused_time > 0
        /\ SessionOf(sid).accumulated_unfocused_time > 0

\* C6: a focus interval and an unfocus interval are never open together.
C6_OneIntervalOpen ==
    \A o \in ObjIds :
        ~(/\ heap[o].current_focus_session_start # None
          /\ heap[o].current_unfocus_session_start # None)

\* C7: is_tracking becomes true only in a step taken while the session is
\* in Countdown with at least countdown_duration elapsed since the
\* countdown-start its most recent start_session recorded.
C7_TrackingOnlyAfterCountdown ==
    [][\A o \in ObjIds :
          (heap'[o].is_tracking /\ ~heap[o].is_tracking)
          => /\ heap[o].countdown_active
             /\ heap[o].tracking_state = "countdown"
             /\ CountdownDone(now - heap[o].countdown_start_time)]_vars

\* C8 as stated: once a session is Stopped, no step moves it to another
\* lifecycle state while it stays in the registry.
C8_StoppedTerminal ==
    [][\A sid \in SessionIds :
          (SameSession(sid) /\ SessionOf(sid).tracking_state = "stopped")
          => SessionOf(sid).tracking_state' = "stopped"]_vars

\* C8 amended: once a session is Stopped, the only step that moves it to
\* another lifecycle state is start_session, which re-arms it to Countdown.
C8_StoppedUntilRestart ==
    [][\A sid \in SessionIds :
          (/\ SameSession(sid)
           /\ SessionOf(sid).tracking_state = "stopped"
           /\ SessionOf(sid).tracking_state' # "stopped")
          => \E t \in Threads :
                /\ pc[t] = "idle" /\ pc'[t] = "l330" /\ loc'[t].sid = sid
                /\ SessionOf(sid).tracking_state' = "countdown"]_vars

\* C8 witness: a frame has been processed on a Stopped session, at a time
\* when the countdown it was stopped in would have been over.
C8_Witness ==
    \E t \in Threads :
        /\ pc[t] = "l206"
        /\ loc[t].pre_state = "stopped"
        /\ CountdownDone(now - Obj(t).countdown_start_time)
        /\ Obj(t).session_start_time = None

\* C9: a frame that finds the session in Countdown (countdown-start t0) at
\* time t < t0 + d leaves it in Countdown and reports countdown_active and
\* countdown_remaining = d - (t - t0); at t >= t0 + d it makes the session
\* Tracking and reports countdown_active false; countdown_remaining is
\* never negative.
C9_CountdownTiming ==
    \A t \in Threads :
        pc[t] = "l206"
        => /\ Result(t).countdown_remaining >= 0
           /\ loc[t].pre_state = "countdown"
              => IF loc[t].at < loc[t].pre_countdown_start + countdown_duration
                 THEN /\ Result(t).tracking_state = "countdown"
                      /\ Result(t).countdown_active
                      /\ Result(t).countdown_remaining =
                           countdown_duration
                             - (loc[t].at - loc[t].pre_countdown_start)
                 ELSE /\ Result(t).tracking_state = "tracking"
                      /\ ~Result(t).countdown_active
                      /\ Obj(t).is_tracking

\* C9 witness: a frame arriving exactly countdown_duration after the
\* countdown-start has made the session Tracking.
C9_Witness ==
    \E t \in Threads :
        /\ pc[t] = "l206"
        /\ loc[t].pre_state = "countdown"
        /\ loc[t].at = loc[t].pre_countdown_start + countdown_duration
        /\ Result(t).tracking_state = "tracking"

\* C10: overlapping calls leave the state that the same calls leave when run
\* one at a time; in particular, with no call running, frames_processed is
\* the number of frames accepted for the session.
C10_FramesCounted ==
    AllIdle
    => \A sid \in SessionIds :
          Registered(sid)
          => SessionOf(sid).frames_processed = SessionOf(sid).frames_accepted

\* The call of thread t has looked its session up and has a read or a write
\* of it still to do (the frame steps, and the metrics read at lines 206,
\* 340 and 413).
InUse(t) ==
    /\ loc[t].ref # None
    /\ pc[t] \notin {"idle", "l165", "l170", "l330", "l331", "l343", "l411",
                     "raised"}

\* C11: eviction and per-session mutation are mutually exclusive: while a
\* call is between looking its session up and its last read or write of it,
\* the session object it holds is still the one registered under its id.
\* Stated for the calls that began within the current second.
C11_NoUseAfterEviction ==
    \A t \in Threads :
        (InUse(t) /\ loc[t].at = now) => sessions[loc[t].sid] = loc[t].ref

\* C12: one sweep at time now removes exactly the sessions whose
\* last_frame_time is more than session_timeout seconds old and leaves every
\* other session registered and unchanged (idle for 301 s: removed; idle for
\* 300 s or 299 s: kept).
C12_SweepExact ==
    [][sessions' # sessions =>
        \A sid \in Keys :
            IF /\ sessions[sid] # None
               /\ now - SessionOf(sid).last_frame_time > session_timeout
            THEN sessions'[sid] = None
            ELSE /\ sessions'[sid] = sessions[sid]
                 /\ sessions[sid] # None
                        => heap'[sessions[sid]] = heap[sessions[sid]]]_vars

\* A sweep has removed one session and kept the other, which has been idle
\* for exactly session_timeout seconds.
C12_Witness ==
    \E a \in Keys, b \in Keys :
        /\ sessions[a] = None
        /\ sessions[b] # None
        /\ now - SessionOf(b).last_frame_time = session_timeout

\* C13: a process_frame call whose frame does not decode returns the failure
\* result of line 170 and leaves the session and the registry unchanged:
\* neither the step that reaches line 170 nor the return from it changes
\* any field of any session (last_frame_time and frames_processed included).
C13_DecodeFailureNoChange ==
    [][\A t \in Threads :
          (pc'[t] = "l170" \/ pc[t] = "l170")
              => /\ heap' = heap
                 /\ sessions' = sessions
                 /\ pc'[t] = "l170" => Result(t)'.status = "decode_error"]_vars

\* An undecodable frame was submitted for a Tracking session that had been
\* idle for a while, so a refreshed last_frame_time would show.
C13_Witness ==
    /\ pc[1] = "l170"
    /\ Obj(1).tracking_state = "tracking"
    /\ Obj(1).last_frame_time < now
    /\ Obj(1).focus_history # <<>>

\* C14: start_session with user_id or module_id absent returns False (line
\* 331) and changes nothing: no session is created, and a session already
\* registered under the id keeps every field.
C14_MissingIdsNoEffect ==
    [][\A t \in Threads :
          (pc[t] = "idle" /\ pc'[t] \in {"l330", "l331"} /\ ~loc'[t].ids)
              => /\ pc'[t] = "l331"
                 /\ heap' = heap
                 /\ sessions' = sessions]_vars

\* C15: after every update_focus_state call the stored is_focused is
\* (weighted mean of focus_history > 0.6) with the weights rising linearly
\* from 0.5 to 1.0, i.e. 5 * sum(w_i h_i) > 3 * sum(w_i).  A frame call of a
\* session that is tracking has run update_focus_state when it reaches its
\* result at line 206.
C15_SmoothedIsWeightedMean ==
    \A t \in Threads :
        (pc[t] = "l206" /\ Obj(t).is_tracking)
            => Obj(t).is_focused = MeanAbove(Obj(t).focus_history)

\* The last n entries of the sequence a (all of it when it is shorter).
LastN(a, n) ==
    IF Len(a) <= n THEN a ELSE SubSeq(a, Len(a) - n + 1, Len(a))

\* C16: focus_history never holds more than 15 entries and is the most
\* recent min(n, 15) raw-focus decisions since the last start, in arrival
\* order: start_session empties it, the append of a frame call (line 248)
\* turns it into the last 15 entries of (history, decision), and no other
\* step changes it.
C16_HistoryIsRecentWindow ==
    [][\A sid \in SessionIds :
          SameSession(sid) =>
              LET h  == SessionOf(sid).focus_history
                  h2 == SessionOf(sid)'.focus_history
              IN  /\ Len(h2) <= 15
                  /\ IF \E t \in Threads : pc[t] = "idle" /\ pc'[t] = "l330"
                     THEN h2 = << >>
                     ELSE IF \E t \in Threads :
                                pc[t] = "l248" /\ pc'[t] = "l252"
                     THEN \E t \in Threads :
                             /\ pc[t] = "l248"
                             /\ h2 = LastN(h \o <<loc[t].raw>>, 15)
                     ELSE h2 = h]_vars

\* Seventeen frames have been processed, the last two with decisions True
\* and False: the history holds 15 entries ending in True, False.
C16_Witness ==
    /\ pc[1] = "l206"
    /\ Obj(1).frames_processed = 17
    /\ Len(Obj(1).focus_history) = 15
    /\ Obj(1).focus_history[14]
    /\ ~Obj(1).focus_history[15]

\* C17: in every metrics record (from process_frame, stop_session or the
\* status query) focus_percentage is 0 whenever total_time is 0, for the
\* reported one-decimal total and for the unrounded one, and it lies between
\* 0 and 100 (here in tenths of a percent).
C17_PercentageGuarded ==
    \A t \in Threads :
        pc[t] \in {"l206", "l340", "l413"} =>
            LET r == Result(t)
                total == FocusedAt(Obj(t), now, loc[t].late)
                           + UnfocusedAt(Obj(t), now, loc[t].late)
            IN  /\ r.total_time = 0 => r.focus_percentage = 0
                /\ total = 0 => r.focus_percentage = 0
                /\ r.focus_percentage >= 0
                /\ r.focus_percentage <= 1000

\* The fields that record a measurement: the history, the smoothed focus,
\* the accumulators and the open intervals.
Measured(s) ==
    <<s.focus_history, s.is_focused,
      s.accumulated_focused_time, s.accumulated_unfocused_time,
      s.current_focus_session_start, s.current_unfocus_session_start>>

\* C18: no measurement during Countdown: a step of a process_frame call on a
\* session that is in Countdown and stays in Countdown changes none of the
\* measured fields, in the countdown of a first start and in the countdown
\* of a restart alike.
C18_NoMeasurementInCountdown ==
    [][\A sid \in SessionIds :
          ( /\ SameSession(sid)
            /\ SessionOf(sid).tracking_state = "countdown"
            /\ SessionOf(sid)'.tracking_state = "countdown"
            /\ \E t \in Threads : pc[t] # "idle" /\ loc[t].sid = sid )
          => Measured(SessionOf(sid))' = Measured(SessionOf(sid))]_vars

\* The time of the most recent activity of session s: its creation or its
\* last processed frame (last_frame_time), or its last start_session call
\* (countdown_start_time, which only start_session writes).
LastActivity(s) ==
    IF s.countdown_start_time > s.last_frame_time
    THEN s.countdown_start_time ELSE s.last_frame_time

\* C19: a session is evicted only for inactivity: when a sweep removes a
\* session, more than session_timeout seconds have passed since its creation,
\* its last start_session call and its last processed frame.
C19_EvictedOnlyWhenInactive ==
    [][\A sid \in Keys :
          (sessions[sid] # None /\ sessions'[sid] = None)
              => now - LastActivity(SessionOf(sid)) > session_timeout]_vars

\* C20: between calls made one at a time, an open focus interval implies
\* is_focused and an open unfocus interval implies not is_focused, so the
\* interval get_session_metrics extends is the one of the reported
\* current_state.  A call is between its steps only while it is at a line
\* before its return, so the states are those where every thread is idle or
\* at a return.
C20_OpenIntervalMatchesFocus ==
    (\A t \in Threads : pc[t] \in ReturnLabels \cup {"idle"})
        => \A sid \in SessionIds :
              Registered(sid)
                  => /\ SessionOf(sid).current_focus_session_start # None
                        => SessionOf(sid).is_focused
                     /\ SessionOf(sid).current_unfocus_session_start # None
                        => ~SessionOf(sid).is_focused

\* A frame call returns metrics for a session that went from focused to
\* unfocused and back: a focus interval is open and time has accrued on
\* both sides.
C20_Witness ==
    /\ pc[1] = "l206"
    /\ Obj(1).current_focus_session_start # None
    /\ Obj(1).is_focused
    /\ Obj(1).accumulated_unfocused_time > 0
    /\ Obj(1).accumulated_focused_time > 0

====
